---- MODULE Spec2Model ----
(***************************************************************************)
(* A model of the OTR conversation engine of otr3: the four AKE messages   *)
(* of ake.go, the wire codec and primitives they call, and the dispatcher  *)
(* that drives them (Receive), for two conversations joined by a network.  *)
(*                                                                         *)
(* Byte strings are sequences over 0..255.  The DH group is a small prime  *)
(* group, SHA-256 is an injective-on-short-inputs mixing function into 32  *)
(* bytes and AES-CTR is the XOR with a key stream derived from the key, so  *)
(* that lengths, prefixes, involution and equality of what is hashed are    *)
(* all real, while the cryptographic strength is not modelled.             *)
(***************************************************************************)
EXTENDS Integers, Sequences, FiniteSets, TLC

(***************************************************************************)
(* Bounds of the model                                                     *)
(***************************************************************************)
MaxExp == 3        \* the random source yields the exponents 2..MaxExp
MaxCrafted == 1    \* calls of Receive on bytes no peer produced
MaxData == 1       \* data messages generated in one behaviour

(***************************************************************************)
(* Program constants                                                       *)
(***************************************************************************)
msgTypeDHCommit == 2
msgTypeDHKey == 10
msgTypeRevealSig == 17
msgTypeSig == 18
msgTypeData == 3

p == 23
g1 == 2
pMinusTwo == p - 2

NilInt == 0 - 1    \* a nil *big.Int

Byte == 0..255

(***************************************************************************)
(* Byte-string helpers                                                     *)
(***************************************************************************)
Zeros(n) == [i \in 1..n |-> 0]

Fill(n, b) == [i \in 1..n |-> b]

\* s[from:to] of Go, 0-based, to exclusive
Slice(s, from, to) == IF to <= from THEN << >> ELSE SubSeq(s, from + 1, to)

RECURSIVE Xor(_, _)
Xor(a, b) ==
  IF a = 0 THEN b
  ELSE IF b = 0 THEN a
  ELSE (((a % 2) + (b % 2)) % 2) + 2 * Xor(a \div 2, b \div 2)

\* lexicographic comparison of byte strings, as bytes.Compare
RECURSIVE bytesCompare(_, _)
bytesCompare(a, b) ==
  IF a = << >> /\ b = << >> THEN 0
  ELSE IF a = << >> THEN 0 - 1
  ELSE IF b = << >> THEN 1
  ELSE IF Head(a) < Head(b) THEN 0 - 1
  ELSE IF Head(a) > Head(b) THEN 1
  ELSE bytesCompare(Tail(a), Tail(b))

(***************************************************************************)
(* Wire codec                                                              *)
(***************************************************************************)
appendShort(out, v) == out \o << (v \div 256) % 256, v % 256 >>

appendWord(out, w) ==
  out \o << (w \div 16777216) % 256, (w \div 65536) % 256, (w \div 256) % 256, w % 256 >>

appendData(out, d) == appendWord(out, Len(d)) \o d

\* big.Int.Bytes: the big-endian magnitude, no leading zeros, empty for 0
RECURSIVE bigBytes(_)
bigBytes(n) == IF n <= 0 THEN << >> ELSE Append(bigBytes(n \div 256), n % 256)

\* big.Int.SetBytes
RECURSIVE bigSetBytes(_)
bigSetBytes(b) ==
  IF b = << >> THEN 0
  ELSE 256 * bigSetBytes(SubSeq(b, 1, Len(b) - 1)) + b[Len(b)]

appendMPI(out, n) == appendData(out, bigBytes(n))

\* the bytes that are there when the input is shorter than the field
extractWord(in, index) ==
  LET word(w) == [index |-> index + 4,
                  value |-> w[1] * 16777216 + w[2] * 65536 + w[3] * 256 + w[4]]
  IN  word(Slice(in \o Zeros(index + 4), index, index + 4))

Min(a, b) == IF a < b THEN a ELSE b

extractData(in, index) ==
  LET field(from, to) == [index |-> IF from > Len(in) THEN Len(in) ELSE to,
                          data |-> Slice(in, from, to)]
  IN  field(index + 4, Min(index + 4 + extractWord(in, index).value, Len(in)))

extractMPI(in, index) ==
  LET mpi(d) == [index |-> d.index, value |-> bigSetBytes(d.data)]
  IN  mpi(extractData(in, index))

(***************************************************************************)
(* Primitives                                                              *)
(***************************************************************************)
RECURSIVE SumBytes(_, _, _)
SumBytes(b, i, k) ==
  IF i > Len(b) THEN 0 ELSE (2 * k + 1) * b[i] + SumBytes(b, i + 32, k + 1)

\* sha256.Sum256: 32 bytes, injective on inputs shorter than 32 bytes
Sha256(b) == [i \in 1..32 |-> ((31 * Len(b)) + (17 * i) + SumBytes(b, i, 0)) % 256]

\* hmac.New(sha256.New, key), Write(data), Sum(nil)
sumHMAC(key, data) == Sha256(Sha256(key \o data) \o << 92 >>)

\* aes.NewCipher accepts keys of 16, 24 or 32 bytes
aesKeyOK(key) == Len(key) \in {16, 24, 32}

\* the key stream of AES-CTR with a zero IV, from the expanded key ks
KeyStream(ks, i) == (ks[((i - 1) % 32) + 1] + (5 * i)) % 256

\* cipher.NewCTR(aesCipher, iv).XORKeyStream(dst, src), iv = 0
XORKeyStream(key, src) ==
  LET ks == Sha256(key)
  IN  [i \in 1..Len(src) |-> Xor(src[i], KeyStream(ks, i))]

RECURSIVE ModExp(_, _, _)
ModExp(b, e, m) == IF e = 0 THEN 1 % m ELSE (b * ModExp(b, e - 1, m)) % m

lt(a, b) == a < b
gt(a, b) == a > b
eq(a, b) == a = b

(***************************************************************************)
(* Long-term keys (DSA), reduced to what the AKE messages carry            *)
(***************************************************************************)
alicePrivateKey == 1
bobPrivateKey == 2

\* PublicKey.serialize: the type tag 0x0000 and the MPIs p, q, g, y
serialize(key) ==
  appendMPI(appendMPI(appendMPI(appendMPI(<< 0, 0 >>, 11), 5), 3), 3 + key)

\* PrivateKey.sign: the 20-byte values r and s of a DSA signature
sign(key, mb) ==
  Slice(Sha256(<< key >> \o mb), 0, 20) \o Slice(Sha256(<< key, 1 >> \o mb), 0, 20)

(***************************************************************************)
(* ake.go.  An AKE context is a record; every method is an operator from   *)
(* the context (and its input) to the context after the call, the bytes    *)
(* returned and the error ("nil" for no error).                            *)
(***************************************************************************)
ZeroKeys == [c |-> Zeros(16), m1 |-> Zeros(32), m2 |-> Zeros(32)]

NewAKE(key, tag) ==
  [x |-> NilInt, gx |-> NilInt, y |-> NilInt, gy |-> NilInt,
   r |-> Zeros(16), encryptedGx |-> << >>, digest |-> Zeros(32),
   revealKey |-> ZeroKeys, sigKey |-> ZeroKeys, ssid |-> Zeros(8),
   myKeyID |-> 0, ourKey |-> key, otrVersion |-> 0,
   senderInstanceTag |-> tag, receiverInstanceTag |-> 0,
   Rand |-> TRUE]

versionNum(ake) == ake.otrVersion

needInstanceTag(ake) == ake.otrVersion = 3

\* the reader the draws of this context are read from: the one injected
\* (ake.Rand), or the process-wide crypto/rand.Reader when there is none
rand(ake) == IF ake.Rand THEN "injected" ELSE "global"

\* io.ReadFull(ake.rand(), randx[:]) and SetBytes; rd is what the reader
\* yields: rd.ok tells whether the 40 bytes of an exponent are there, rd.nR
\* how many of the 16 bytes of r are
generateRand(ake, rd) ==
  IF rd.ok THEN [value |-> rd.x, err |-> "nil"]
  ELSE [value |-> NilInt, err |-> "unexpected EOF"]

encryptGx(ake, rd) ==
  LET r == Fill(rd.nR, rd.fill) \o Slice(ake.r, rd.nR, 16)
      gxMPI == appendMPI(<< >>, ake.gx)
  IN  [ake |-> [ake EXCEPT !.r = r], out |-> XORKeyStream(r, gxMPI), err |-> "nil"]

decrypt(r, src) ==
  IF ~aesKeyOK(r)
    THEN [dst |-> src,
          err |-> "otr: cannot create AES cipher from reveal signature message"]
    ELSE [dst |-> XORKeyStream(r, src), err |-> "nil"]

hashedGx(ake) == Sha256(bigBytes(ake.gx))

h2(b, secbytes) == Sha256(<< b >> \o secbytes)

calcAKEKeys(ake, s) ==
  LET keys(secbytes) ==
        [ake EXCEPT
           !.ssid = Slice(h2(0, secbytes), 0, 8),
           !.revealKey = [c |-> Slice(h2(1, secbytes), 0, 16),
                          m1 |-> h2(2, secbytes), m2 |-> h2(3, secbytes)],
           !.sigKey = [c |-> Slice(h2(1, secbytes), 16, 32),
                       m1 |-> h2(4, secbytes), m2 |-> h2(5, secbytes)]]
  IN  keys(appendMPI(<< >>, s))

calcDHSharedSecret(ake, xKnown) ==
  IF xKnown
    THEN IF ake.gy = NilInt THEN [s |-> NilInt, err |-> "missing gy"]
         ELSE IF ake.x = NilInt THEN [s |-> NilInt, err |-> "missing x"]
         ELSE [s |-> ModExp(ake.gy, ake.x, p), err |-> "nil"]
    ELSE [s |-> ModExp(ake.gx, ake.y, p), err |-> "nil"]

generateVerifyData(ake, xFirst) ==
  IF ake.gy = NilInt THEN [out |-> << >>, err |-> "missing gy"]
  ELSE IF ake.gx = NilInt THEN [out |-> << >>, err |-> "missing gx"]
  ELSE IF ake.ourKey = 0 THEN [out |-> << >>, err |-> "missing ourKey"]
  ELSE LET verifyData == IF xFirst
                           THEN appendMPI(appendMPI(<< >>, ake.gx), ake.gy)
                           ELSE appendMPI(appendMPI(<< >>, ake.gy), ake.gx)
       IN  [out |-> appendWord(verifyData \o serialize(ake.ourKey), ake.myKeyID),
            err |-> "nil"]

calcXb(ake, key, mb, xFirst) ==
  LET xb == appendWord(serialize(ake.ourKey), ake.myKeyID) \o sign(ake.ourKey, mb)
  IN  XORKeyStream(key.c, xb)

generateEncryptedSignature(ake, key, xFirst) ==
  LET encrypt(v) ==
        IF v.err # "nil" THEN [out |-> << >>, err |-> v.err]
        ELSE [out |-> appendData(<< >>, calcXb(ake, key, sumHMAC(key.m1, v.out), xFirst)),
              err |-> "nil"]
  IN  encrypt(generateVerifyData(ake, xFirst))

\* the header every AKE message starts with
akeHeader(ake, msgType) ==
  LET h == Append(appendShort(<< >>, versionNum(ake)), msgType)
  IN  IF needInstanceTag(ake)
        THEN appendWord(appendWord(h, ake.senderInstanceTag), ake.receiverInstanceTag)
        ELSE h

\* dhCommitMessage with the type byte of a DH-Key message
dhCommitMessageWrongType(ake, rd) ==
  LET a0 == [ake EXCEPT !.myKeyID = 0]
      message(a2) ==
        [ake |-> a2,
         out |-> appendData(appendData(akeHeader(a2, msgTypeDHKey), a2.encryptedGx),
                            hashedGx(a2)),
         err |-> "nil"]
      encrypted(e) == message([e.ake EXCEPT !.encryptedGx = e.out])
      commit(x) ==
        IF x.err # "nil" THEN [ake |-> a0, out |-> << >>, err |-> x.err]
        ELSE encrypted(encryptGx([a0 EXCEPT !.x = x.value,
                                            !.gx = ModExp(g1, x.value, p)], rd))
  IN  commit(generateRand(a0, rd))

dhCommitMessage(ake, rd) ==
  LET a0 == [ake EXCEPT !.myKeyID = 0]
      message(a2) ==
        [ake |-> a2,
         out |-> appendData(appendData(akeHeader(a2, msgTypeDHCommit), a2.encryptedGx),
                            hashedGx(a2)),
         err |-> "nil"]
      encrypted(e) == message([e.ake EXCEPT !.encryptedGx = e.out])
      commit(x) ==
        IF x.err # "nil" THEN [ake |-> a0, out |-> << >>, err |-> x.err]
        ELSE encrypted(encryptGx([a0 EXCEPT !.x = x.value,
                                            !.gx = ModExp(g1, x.value, p)], rd))
  IN  commit(generateRand(a0, rd))

\* serializeDHKey with the type byte of a DH-Commit message
serializeDHKeyWrongType(ake) ==
  [ake |-> ake, out |-> appendMPI(akeHeader(ake, msgTypeDHCommit), ake.gy), err |-> "nil"]

serializeDHKey(ake) ==
  [ake |-> ake, out |-> appendMPI(akeHeader(ake, msgTypeDHKey), ake.gy), err |-> "nil"]

dhKeyMessage(ake, rd) ==
  LET key(y) ==
        IF y.err # "nil" THEN [ake |-> ake, out |-> << >>, err |-> y.err]
        ELSE serializeDHKey([ake EXCEPT !.y = y.value, !.gy = ModExp(g1, y.value, p)])
  IN  key(generateRand(ake, rd))

revealSigMessage(ake) ==
  LET message(a1, encryptedSig) ==
        IF encryptedSig.err # "nil"
          THEN [ake |-> a1, out |-> << >>, err |-> encryptedSig.err]
          ELSE [ake |-> a1,
                out |-> appendData(akeHeader(a1, msgTypeRevealSig), a1.r)
                          \o encryptedSig.out
                          \o Slice(sumHMAC(a1.revealKey.m2, encryptedSig.out), 0, 20),
                err |-> "nil"]
      signed(a1) == message(a1, generateEncryptedSignature(a1, a1.revealKey, TRUE))
      reveal(s) ==
        IF s.err # "nil" THEN [ake |-> ake, out |-> << >>, err |-> s.err]
        ELSE signed(calcAKEKeys(ake, s.s))
  IN  reveal(calcDHSharedSecret(ake, TRUE))

sigMessage(ake) ==
  LET message(a1, encryptedSig) ==
        IF encryptedSig.err # "nil"
          THEN [ake |-> a1, out |-> << >>, err |-> encryptedSig.err]
          ELSE [ake |-> a1,
                out |-> akeHeader(a1, msgTypeSig) \o encryptedSig.out
                          \o Slice(sumHMAC(a1.sigKey.m2, encryptedSig.out), 0, 20),
                err |-> "nil"]
      signed(a1) == message(a1, generateEncryptedSignature(a1, a1.sigKey, FALSE))
  IN  signed(calcAKEKeys(ake, calcDHSharedSecret(ake, FALSE).s))

\* processDHKey with the upper bound of the range one too low
processDHKeyOffByOne(ake, in) ==
  LET check(gy) ==
        IF lt(gy, g1) \/ gt(gy, pMinusTwo - 1)
          THEN [ake |-> ake, isSame |-> FALSE, err |-> "otr: DH value out of range"]
        ELSE IF ake.gy # NilInt
          THEN [ake |-> ake, isSame |-> eq(ake.gy, gy), err |-> "nil"]
        ELSE [ake |-> [ake EXCEPT !.gy = gy], isSame |-> FALSE, err |-> "nil"]
  IN  check(extractMPI(in, 0).value)

\* processDHKey that keeps the last gy received instead of the first
processDHKeyKeepsLast(ake, in) ==
  LET check(gy) ==
        IF lt(gy, g1) \/ gt(gy, pMinusTwo)
          THEN [ake |-> ake, isSame |-> FALSE, err |-> "otr: DH value out of range"]
        ELSE IF ake.gy # NilInt
          THEN [ake |-> [ake EXCEPT !.gy = gy], isSame |-> eq(ake.gy, gy), err |-> "nil"]
        ELSE [ake |-> [ake EXCEPT !.gy = gy], isSame |-> FALSE, err |-> "nil"]
  IN  check(extractMPI(in, 0).value)

\* processDHKey without the upper bound of the range check
processDHKeyNoUpperBound(ake, in) ==
  LET check(gy) ==
        IF lt(gy, g1)
          THEN [ake |-> ake, isSame |-> FALSE, err |-> "otr: DH value out of range"]
        ELSE IF ake.gy # NilInt
          THEN [ake |-> ake, isSame |-> eq(ake.gy, gy), err |-> "nil"]
        ELSE [ake |-> [ake EXCEPT !.gy = gy], isSame |-> FALSE, err |-> "nil"]
  IN  check(extractMPI(in, 0).value)

processDHKey(ake, in) ==
  LET check(gy) ==
        IF lt(gy, g1) \/ gt(gy, pMinusTwo)
          THEN [ake |-> ake, isSame |-> FALSE, err |-> "otr: DH value out of range"]
        ELSE IF ake.gy # NilInt
          THEN [ake |-> ake, isSame |-> eq(ake.gy, gy), err |-> "nil"]
        ELSE [ake |-> [ake EXCEPT !.gy = gy], isSame |-> FALSE, err |-> "nil"]
  IN  check(extractMPI(in, 0).value)

\* checkDecryptedGx without the comparison of lengths
checkDecryptedGxNoLength(ake, decryptedGx) ==
  LET check(digest, m) ==
        LET a1 == [ake EXCEPT !.gx = m.value]
        IN  IF Len(digest) # Len(ake.digest) \/ digest # ake.digest
              THEN [ake |-> ake, err |-> "otr: bad commit MAC in reveal signature message"]
            ELSE IF a1.gx < g1 \/ a1.gx > pMinusTwo
              THEN [ake |-> a1, err |-> "otr: DH value out of range"]
            ELSE [ake |-> a1, err |-> "nil"]
  IN  check(Sha256(decryptedGx), extractMPI(decryptedGx, 0))

checkDecryptedGx(ake, decryptedGx) ==
  LET check(digest, m) ==
        LET a1 == [ake EXCEPT !.gx = m.value]
        IN  IF Len(digest) # Len(ake.digest) \/ digest # ake.digest
              THEN [ake |-> ake, err |-> "otr: bad commit MAC in reveal signature message"]
            ELSE IF Len(a1.encryptedGx) > m.index
              THEN [ake |-> a1, err |-> "otr: gx corrupt after decryption"]
            ELSE IF a1.gx < g1 \/ a1.gx > pMinusTwo
              THEN [ake |-> a1, err |-> "otr: DH value out of range"]
            ELSE [ake |-> a1, err |-> "nil"]
  IN  check(Sha256(decryptedGx), extractMPI(decryptedGx, 0))

processEncryptedSig(ake, encryptedSig, theirMAC, revealKey, xFirst) == "nil"

\* decryptedGx is the slice ake.encryptedGx itself: decrypt writes the
\* plaintext over the stored ciphertext
processRevealSig(ake, in) ==
  LET signature(a2, encryptedSig, theirMAC) ==
        IF processEncryptedSig(a2, encryptedSig.data, theirMAC, a2.revealKey, TRUE) # "nil"
          THEN [ake |-> a2, err |-> "otr: in reveal signature message"]
          ELSE [ake |-> a2, err |-> "nil"]
      checked(c, encryptedSig, theirMAC) ==
        IF c.err # "nil" THEN [ake |-> c.ake, err |-> c.err]
        ELSE signature(calcAKEKeys(c.ake, calcDHSharedSecret(c.ake, FALSE).s),
                       encryptedSig, theirMAC)
      decrypted(d, encryptedSig, theirMAC) ==
        IF d.err # "nil" THEN [ake |-> ake, err |-> d.err]
        ELSE checked(checkDecryptedGx([ake EXCEPT !.encryptedGx = d.dst], d.dst),
                     encryptedSig, theirMAC)
      parsed(r, encryptedSig, theirMAC) ==
        IF Len(theirMAC) # 20
          THEN [ake |-> ake, err |-> "otr: corrupt reveal signature message"]
          ELSE decrypted(decrypt(r.data, ake.encryptedGx), encryptedSig, theirMAC)
      signed(r, encryptedSig) ==
        parsed(r, encryptedSig, Slice(in, encryptedSig.index, Len(in)))
      revealed(r) == signed(r, extractData(in, r.index))
  IN  revealed(extractData(in, 0))

(***************************************************************************)
(* The conversation: policies, message-state, AKE sub-state, SMP           *)
(* sub-state, the AKE context and the key manager's state.                 *)
(***************************************************************************)
allowV2 == "allowV2"
allowV3 == "allowV3"

ZeroDHKeys == [priv |-> 0, pub |-> 0]

NoKeys ==
  [ourKeyID |-> 0, ourCurrentDHKeys |-> ZeroDHKeys, ourPreviousDHKeys |-> ZeroDHKeys,
   theirKeyID |-> 0, theirCurrentDHPub |-> 0]

newConversation(pol, key, tag) ==
  [policies |-> pol, msgState |-> "plainText", akeState |-> "none",
   revealSigMsg |-> << >>, smpState |-> "expect1",
   ake |-> NewAKE(key, tag), keys |-> NoKeys, ssid |-> Zeros(8)]

\* has that takes any policy for any version
hasAnyVersion(conv, v) == v \in {2, 3} /\ conv.policies # {}

has(conv, v) == (v = 2 /\ allowV2 \in conv.policies) \/ (v = 3 /\ allowV3 \in conv.policies)

\* "?OTR"
queryMarker == << 63, 79, 84, 82 >>

isQueryMessage(msg) == Len(msg) >= 4 /\ SubSeq(msg, 1, 4) = queryMarker

RECURSIVE queryDigits(_)
queryDigits(b) ==
  IF b = << >> THEN << >>
  ELSE IF Head(b) >= 48 /\ Head(b) <= 57
    THEN << Head(b) - 48 >> \o queryDigits(Tail(b))
  ELSE queryDigits(Tail(b))

\* parseOTRQueryMessage that drops the digits that stand for no version
parseOTRQueryMessageKnownVersions(msg) ==
  IF ~(isQueryMessage(msg) /\ Len(msg) > 4) THEN << >>
  ELSE LET rest == Slice(msg, 4, Len(msg))
           one == IF rest[1] = 63 THEN << 1 >> ELSE << >>
           versions == IF rest[1] = 63 THEN Tail(rest) ELSE rest
       IN  IF Len(versions) > 0 /\ versions[1] = 118
             THEN one \o SelectSeq(queryDigits(versions), LAMBDA d : d \in {1, 2, 3})
             ELSE one

parseOTRQueryMessage(msg) ==
  IF ~(isQueryMessage(msg) /\ Len(msg) > 4) THEN << >>
  ELSE LET rest == Slice(msg, 4, Len(msg))
           one == IF rest[1] = 63 THEN << 1 >> ELSE << >>
           versions == IF rest[1] = 63 THEN Tail(rest) ELSE rest
       IN  IF Len(versions) > 0 /\ versions[1] = 118
             THEN one \o queryDigits(versions)
             ELSE one

Range(f) == {f[i] : i \in DOMAIN f}

\* the highest version of the query that the policies allow, 0 for none
acceptOTRRequest(conv, msg) ==
  LET highest(vs) ==
        IF 3 \in vs /\ has(conv, 3) THEN 3
        ELSE IF 2 \in vs /\ has(conv, 2) THEN 2
        ELSE 0
  IN  highest(Range(parseOTRQueryMessage(msg)))

\* smpMessageAbort{}.tlv().serialize(): type 6, length 0
smpAbortMsg == << 0, 6, 0, 0 >>

lenMsgHeader == 3

headerLen(v) == IF v = 3 THEN lenMsgHeader + 8 ELSE lenMsgHeader

Ret(conv, toSend, err) == [conv |-> conv, plain |-> << >>, toSend |-> toSend, err |-> err]

\* the end of a successful AKE: two DH key pairs, our_keyid = 2
akeHasFinished(conv, priv, pub, theirPub, rd) ==
  [conv EXCEPT
     !.msgState = "encrypted",
     !.ssid = conv.ake.ssid,
     !.keys = [ourKeyID |-> 2,
               ourCurrentDHKeys |-> [priv |-> rd.x2, pub |-> ModExp(g1, rd.x2, p)],
               ourPreviousDHKeys |-> [priv |-> priv, pub |-> pub],
               theirKeyID |-> 1, theirCurrentDHPub |-> theirPub]]

\* a failure while processing an AKE message
akeFailed(conv, ake, err) ==
  Ret([conv EXCEPT !.ake = ake, !.akeState = "none"], << >>, err)

sendDHCommit(conv, v, rd) ==
  LET send(m) ==
        IF m.err # "nil" THEN Ret([conv EXCEPT !.ake = m.ake], << >>, m.err)
        ELSE Ret([conv EXCEPT !.ake = m.ake, !.akeState = "awaitingDHKey"], m.out, "nil")
  IN  send(dhCommitMessage([conv.ake EXCEPT !.otrVersion = v], rd))

receiveQueryMessage(conv, msg, rd) ==
  LET start(v) ==
        IF v = 0 THEN Ret(conv, << >>, "errInvalidVersion")
        ELSE sendDHCommit(conv, v, rd)
  IN  start(acceptOTRRequest(conv, msg))

\* the responder's answer to a DH-Commit: remember the commitment, send DH-Key
acceptDHCommit(conv, v, body, rd) ==
  LET answer(m) ==
        IF m.err # "nil" THEN akeFailed(conv, m.ake, m.err)
        ELSE Ret([conv EXCEPT !.ake = m.ake, !.akeState = "awaitingRevealSig"],
                 m.out, "nil")
      commitment(e, d) ==
        answer(dhKeyMessage([conv.ake EXCEPT !.otrVersion = v, !.encryptedGx = e.data,
                                             !.digest = d.data, !.gx = NilInt,
                                             !.x = NilInt], rd))
      encrypted(e) == commitment(e, extractData(body, e.index))
  IN  encrypted(extractData(body, 0))

receiveDHCommit(conv, v, body, rd) ==
  LET resend(a1) == Ret([conv EXCEPT !.ake = a1], serializeDHKey(a1).out, "nil")
      commitment(e, d) ==
        resend([conv.ake EXCEPT !.otrVersion = v, !.encryptedGx = e.data,
                                !.digest = d.data])
      encrypted(e) == commitment(e, extractData(body, e.index))
  IN  IF conv.akeState = "awaitingDHKey"
        THEN IF bytesCompare(hashedGx(conv.ake),
                             extractData(body, extractData(body, 0).index).data) = 1
               THEN Ret(conv, << >>, "nil")
               ELSE acceptDHCommit(conv, v, body, rd)
      ELSE IF conv.akeState = "awaitingRevealSig"
        THEN encrypted(extractData(body, 0))
      ELSE acceptDHCommit(conv, v, body, rd)

receiveDHKey(conv, body) ==
  LET reveal(m) ==
        IF m.err # "nil" THEN akeFailed(conv, m.ake, m.err)
        ELSE Ret([conv EXCEPT !.ake = m.ake, !.akeState = "awaitingSig",
                              !.revealSigMsg = m.out], m.out, "nil")
      first(k) ==
        IF k.err # "nil" THEN akeFailed(conv, k.ake, k.err)
        ELSE reveal(revealSigMessage(k.ake))
      again(k) ==
        IF k.err # "nil" THEN akeFailed(conv, k.ake, k.err)
        ELSE IF k.isSame THEN Ret(conv, conv.revealSigMsg, "nil")
        ELSE Ret(conv, << >>, "nil")
  IN  IF conv.akeState = "awaitingDHKey" THEN first(processDHKey(conv.ake, body))
      ELSE IF conv.akeState = "awaitingSig" THEN again(processDHKey(conv.ake, body))
      ELSE Ret(conv, << >>, "nil")

receiveRevealSig(conv, body, rd) ==
  LET finish(m) ==
        IF m.err # "nil" THEN akeFailed(conv, m.ake, m.err)
        ELSE Ret(akeHasFinished([conv EXCEPT !.ake = m.ake, !.akeState = "none"],
                                m.ake.y, m.ake.gy, m.ake.gx, rd),
                 m.out, "nil")
      revealed(q) ==
        IF q.err # "nil" THEN akeFailed(conv, q.ake, q.err)
        ELSE finish(sigMessage(q.ake))
  IN  IF conv.akeState # "awaitingRevealSig" THEN Ret(conv, << >>, "nil")
      ELSE IF allowV2 \notin conv.policies THEN Ret(conv, << >>, "nil")
      ELSE revealed(processRevealSig(conv.ake, body))

\* the initiator's check of a Signature message
processSig(ake, in) ==
  LET signature(encryptedSig, theirMAC) ==
        IF Len(theirMAC) # 20
          THEN [ake |-> ake, err |-> "otr: corrupt signature message"]
        ELSE IF processEncryptedSig(ake, encryptedSig.data, theirMAC,
                                    ake.sigKey, FALSE) # "nil"
          THEN [ake |-> ake, err |-> "otr: in signature message"]
        ELSE [ake |-> ake, err |-> "nil"]
      signed(encryptedSig) ==
        signature(encryptedSig, Slice(in, encryptedSig.index, Len(in)))
  IN  signed(extractData(in, 0))

receiveSig(conv, body, rd) ==
  LET signed(q) ==
        IF q.err # "nil" THEN akeFailed(conv, q.ake, q.err)
        ELSE Ret(akeHasFinished([conv EXCEPT !.ake = q.ake, !.akeState = "none",
                                             !.revealSigMsg = << >>],
                                q.ake.x, q.ake.gx, q.ake.gy, rd),
                 << >>, "nil")
  IN  IF conv.akeState # "awaitingSig" THEN Ret(conv, << >>, "nil")
      ELSE signed(processSig(conv.ake, body))

(***************************************************************************)
(* Data messages                                                           *)
(***************************************************************************)
\* the AES and MAC keys of one direction of a session; sendbyte is 1 for
\* the end with the larger public key, 2 for the other
sessionKeys(priv, ourPub, theirPub, sending) ==
  LET keys(aesKey) == [aes |-> aesKey, mac |-> Sha256(aesKey)]
      b == IF (ourPub > theirPub) = sending THEN 1 ELSE 2
  IN  keys(Slice(h2(b, appendMPI(<< >>, ModExp(theirPub, priv, p))), 0, 16))

dataHeader(conv) ==
  LET h == Append(appendShort(<< >>, conv.ake.otrVersion), msgTypeData)
  IN  IF conv.ake.otrVersion = 3
        THEN appendWord(appendWord(h, conv.ake.senderInstanceTag),
                        conv.ake.receiverInstanceTag)
        ELSE h

\* genDataMsg(plain, tlvs...).serialize(conv)
genDataMsg(conv, plain, tlvs) ==
  LET payload == IF tlvs = << >> THEN plain ELSE plain \o << 0 >> \o tlvs
      senderKeyID == IF conv.keys.ourKeyID = 0 THEN 0 ELSE conv.keys.ourKeyID - 1
      authenticated(k, body) ==
        appendData(body \o Slice(sumHMAC(k.mac, body), 0, 20), << >>)
      encrypted(k) ==
        authenticated(k,
          appendData(
            appendMPI(appendWord(appendWord(Append(dataHeader(conv), 0), senderKeyID),
                                 conv.keys.theirKeyID),
                      conv.keys.ourCurrentDHKeys.pub)
              \o << 0, 0, 0, 0, 0, 0, 0, 1 >>,
            XORKeyStream(k.aes, payload)))
  IN  encrypted(sessionKeys(conv.keys.ourPreviousDHKeys.priv,
                            conv.keys.ourPreviousDHKeys.pub,
                            conv.keys.theirCurrentDHPub, TRUE))

RECURSIVE untilZero(_)
untilZero(b) ==
  IF b = << >> \/ Head(b) = 0 THEN << >> ELSE << Head(b) >> \o untilZero(Tail(b))

processDataMessage(conv, msg) ==
  LET off == headerLen(msg[2]) + 1
      none(err) == [conv |-> conv, plain |-> << >>, toSend |-> << >>, err |-> err]
      decrypted(k, enc) ==
        IF extractWord(msg, off).value # conv.keys.theirKeyID
             \/ extractWord(msg, off + 4).value + 1 # conv.keys.ourKeyID
          THEN none("errInvalidKeyID")
        ELSE IF Slice(msg, enc.index, enc.index + 20)
                  # Slice(sumHMAC(k.mac, Slice(msg, 0, enc.index)), 0, 20)
          THEN none("errBadMAC")
        ELSE [conv |-> conv, plain |-> untilZero(XORKeyStream(k.aes, enc.data)),
              toSend |-> << >>, err |-> "nil"]
  IN  IF conv.msgState # "encrypted"
        THEN none("errEncryptedMessageWithNoSecureChannel")
        ELSE decrypted(sessionKeys(conv.keys.ourPreviousDHKeys.priv,
                                   conv.keys.ourPreviousDHKeys.pub,
                                   conv.keys.theirCurrentDHPub, FALSE),
                       extractData(msg, extractMPI(msg, off + 8).index + 8))

\* receiveData that leaves the SMP state machine where it is
receiveDataKeepsSMP(conv, msg) ==
  IF conv.msgState # "encrypted"
    THEN Ret(conv, smpAbortMsg, "errEncryptedMessageWithNoSecureChannel")
    ELSE processDataMessage(conv, msg)

\* a data message outside an encrypted session: abort SMP, tell the caller
receiveData(conv, msg) ==
  IF conv.msgState # "encrypted"
    THEN Ret([conv EXCEPT !.smpState = "expect1"], smpAbortMsg,
             "errEncryptedMessageWithNoSecureChannel")
    ELSE processDataMessage(conv, msg)

(***************************************************************************)
(* Receive                                                                 *)
(***************************************************************************)
Receive(conv, in, rd) ==
  IF isQueryMessage(in) THEN receiveQueryMessage(conv, in, rd)
  ELSE IF Len(in) < 2 THEN Ret(conv, << >>, "errInvalidOTRMessage")
  ELSE LET v == in[1] * 256 + in[2]
           body == Slice(in, headerLen(v), Len(in))
       IN  IF ~has(conv, v) THEN Ret(conv, << >>, "errWrongProtocolVersion")
           ELSE IF Len(in) < headerLen(v) THEN Ret(conv, << >>, "errInvalidOTRMessage")
           ELSE IF in[3] = msgTypeDHCommit THEN receiveDHCommit(conv, v, body, rd)
           ELSE IF in[3] = msgTypeDHKey THEN receiveDHKey(conv, body)
           ELSE IF in[3] = msgTypeRevealSig THEN receiveRevealSig(conv, body, rd)
           ELSE IF in[3] = msgTypeSig THEN receiveSig(conv, body, rd)
           ELSE IF in[3] = msgTypeData THEN receiveData(conv, in)
           ELSE Ret(conv, << >>, "errInvalidOTRMessage")

\* the type-1 TLV: disconnected, no value
disconnectTLV == << 0, 1, 0, 0 >>

\* Send: pass-through in plaintext, a data message in encrypted, an error in
\* finished
Send(conv, in) ==
  IF conv.msgState = "plainText" THEN Ret(conv, in, "nil")
  ELSE IF conv.msgState = "encrypted" THEN Ret(conv, genDataMsg(conv, in, << >>), "nil")
  ELSE Ret(conv, << >>, "errEncryptedMessageWithNoSecureChannel")

\* End: in encrypted a data message with the disconnect TLV; back to plaintext
End(conv) ==
  IF conv.msgState = "encrypted"
    THEN Ret([conv EXCEPT !.msgState = "plainText"],
             genDataMsg(conv, << >>, disconnectTLV), "nil")
    ELSE Ret([conv EXCEPT !.msgState = "plainText"], << >>, "nil")

\* SMPQuestion: the question of a pending exchange of the peer; none is
\* buffered by the messages modelled here
SMPQuestion(conv) == [conv |-> conv, question |-> << >>]

(***************************************************************************)
(* Two conversations and the network between them                          *)
(***************************************************************************)
VARIABLES
  conv,      \* the two conversations
  net,       \* net[c]: the messages sent to c and not yet received, in order
  last,      \* the last call: who, what it was given and what it returned
  hist,      \* the calls of Receive so far: who, kind of input, error, AKE sub-state after
  nCrafted,  \* calls of Receive on crafted bytes so far
  sent       \* the plaintexts data messages were generated for so far

vars == << conv, net, last, hist, nCrafted, sent >>

Peers == {"alice", "bob"}

Other(c) == IF c = "alice" THEN "bob" ELSE "alice"

PolicySets == {{allowV2}, {allowV3}, {allowV2, allowV3}}

\* what the random source yields in one call
RandDraws ==
  {[ok |-> TRUE, nR |-> 16, x |-> x, fill |-> x - 1, x2 |-> x + 1] : x \in 2..MaxExp}

\* "?OTRv3?", "?OTRv2?", "?OTRv23?", "?OTR?"
Queries ==
  {<< 63, 79, 84, 82, 118, 51, 63 >>, << 63, 79, 84, 82, 118, 50, 63 >>,
   << 63, 79, 84, 82, 118, 50, 51, 63 >>, << 63, 79, 84, 82, 63 >>}

queryV3 == << 63, 79, 84, 82, 118, 51, 63 >>

\* a conversation whose AKE has been completed (the tests' bobContextAfterAKE)
bobContextAfterAKE(pol, state) ==
  LET c0 == newConversation(pol, bobPrivateKey, 258)
      a0 == [c0.ake EXCEPT !.x = 2, !.gx = ModExp(g1, 2, p), !.gy = ModExp(g1, 3, p),
                           !.otrVersion = IF allowV3 \in pol THEN 3 ELSE 2]
      finished(a1) ==
        [akeHasFinished([c0 EXCEPT !.ake = a1], a1.x, a1.gx, a1.gy,
                        [ok |-> TRUE, nR |-> 16, x |-> 3, fill |-> 1, x2 |-> 3])
           EXCEPT !.msgState = state]
  IN  finished(calcAKEKeys(a0, calcDHSharedSecret(a0, TRUE).s))

NoCall ==
  [who |-> "none", kind |-> "none", in |-> << >>, plain |-> << >>, toSend |-> << >>,
   err |-> "nil", akeBefore |-> "none", msgBefore |-> "plainText",
   keysBefore |-> NoKeys, ssidBefore |-> Zeros(8)]

Fresh ==
  /\ net = [c \in Peers |-> << >>]
  /\ last = NoCall
  /\ hist = << >>
  /\ nCrafted = 0
  /\ sent = << >>

\* two new conversations
Init ==
  /\ \E pa \in PolicySets, pb \in PolicySets :
       conv = [c \in Peers |->
                 IF c = "alice" THEN newConversation(pa, alicePrivateKey, 257)
                 ELSE newConversation(pb, bobPrivateKey, 258)]
  /\ Fresh

\* a new conversation and one that is new, or encrypted or finished with an
\* SMP exchange at rest or under way
InitHostile ==
  /\ \E pa \in {{allowV3}, {allowV2, allowV3}}, pb \in {{allowV2, allowV3}},
        sb \in {"plainText", "encrypted", "finished"}, sm \in {"expect1", "expect3"} :
       /\ sm = (IF sb = "finished" THEN "expect3" ELSE "expect1")
       /\ conv = [c \in Peers |->
                 IF c = "alice" THEN newConversation(pa, alicePrivateKey, 257)
                 ELSE IF sb = "plainText" THEN newConversation(pb, bobPrivateKey, 258)
                 ELSE [bobContextAfterAKE(pb, sb) EXCEPT !.smpState = sm]]
  /\ Fresh

\* the draws a call on this input can make: only a query, a DH-Commit, a
\* Reveal-Signature and a Signature make the conversation read the source
DrawsFor(in) ==
  IF isQueryMessage(in)
       \/ (Len(in) >= 3 /\ in[3] \in {msgTypeDHCommit, msgTypeRevealSig, msgTypeSig})
    THEN RandDraws
    ELSE {[ok |-> TRUE, nR |-> 16, x |-> 2, fill |-> 1, x2 |-> 3]}

msgTypeOf(in) == IF Len(in) >= 3 /\ ~isQueryMessage(in) THEN in[3] ELSE 0

\* c.Receive(in): the conversation changes, what it returns is sent to the peer
Call(c, in, kind, rest, rd) ==
  \E r \in {Receive(conv[c], in, rd)} :
      /\ conv' = [conv EXCEPT ![c] = r.conv]
      /\ net' = [net EXCEPT ![c] = rest,
                            ![Other(c)] = IF r.toSend = << >> THEN @ ELSE Append(@, r.toSend)]
      /\ last' = [who |-> c, kind |-> kind, in |-> in, plain |-> r.plain,
                  toSend |-> r.toSend, err |-> r.err,
                  akeBefore |-> conv[c].akeState, msgBefore |-> conv[c].msgState,
                  keysBefore |-> conv[c].keys, ssidBefore |-> conv[c].ssid]
      /\ hist' = Append(hist, [who |-> c, kind |-> kind, type |-> msgTypeOf(in),
                               query |-> IF kind = "query" THEN in ELSE << >>,
                               err |-> r.err, ake |-> r.conv.akeState])

\* the peer's user asks for a conversation, of a conversation that has received
\* nothing yet; the first one to be asked is called bob
ReceiveQuery(c) ==
  /\ conv[c].akeState = "none"
  /\ sent = << >>
  /\ \A i \in 1..Len(hist) : hist[i].who # c
  /\ c = "alice" => hist # << >>
  /\ \E q \in Queries, rd \in RandDraws : Call(c, q, "query", net[c], rd)
  /\ UNCHANGED << nCrafted, sent >>

\* the next message of the peer arrives
ReceiveRelay(c) ==
  /\ net[c] # << >>
  /\ \E rd \in DrawsFor(Head(net[c])) : Call(c, Head(net[c]), "relay", Tail(net[c]), rd)
  /\ UNCHANGED << nCrafted, sent >>

\* a data message that carries an SMP message 1 TLV, of each version
fixtureDataMsgs ==
  {genDataMsg(bobContextAfterAKE(pol, "encrypted"), << >>, << 0, 2, 0, 1, 7 >>) :
     pol \in {{allowV2}, {allowV3}}}

\* the versions a set of policies stands for
Allows(pol, v) == (v = 2 /\ allowV2 \in pol) \/ (v = 3 /\ allowV3 \in pol)

\* the header of a message of the given version and type sent to c
craftedHeader(c, v, t) ==
  LET h == << 0, v, t >>
  IN  IF v = 3 THEN appendWord(appendWord(h, 300), conv[c].ake.senderInstanceTag) ELSE h

\* bytes that no honest peer sends: the header of the highest version c does
\* not allow, a DH-Key with a gy out of range for a conversation that waits for
\* one or has had one, the peer's next message cut short by one byte, a data
\* message of another session
Crafted(c) ==
  {<< 0, v >> : v \in {w \in {1, 2, 3} : ~Allows(conv[c].policies, w)
                                         /\ \A u \in w + 1..3 : Allows(conv[c].policies, u)}}
    \cup {appendMPI(craftedHeader(c, v, msgTypeDHKey), gy) :
            v \in {w \in {2, 3} : w = conv[c].ake.otrVersion
                                     /\ conv[c].akeState \in {"awaitingDHKey", "awaitingSig"}},
            gy \in {1, p - 1}}
    \cup {SubSeq(m, 1, Len(m) - 1) :
            m \in {n \in {IF net[c] = << >> THEN << >> ELSE Head(net[c])} :
                     msgTypeOf(n) \in {msgTypeRevealSig, msgTypeSig}}}
    \cup {m \in fixtureDataMsgs : Allows(conv[c].policies, m[2])}

ReceiveCrafted(c) ==
  /\ nCrafted < MaxCrafted
  /\ \E m \in Crafted(c) : \E rd \in DrawsFor(m) : Call(c, m, "crafted", net[c], rd)
  /\ nCrafted' = nCrafted + 1
  /\ UNCHANGED sent

\* "hi", "h"
Plaintexts == {<< 104, 105 >>, << 104 >>}

\* c generates a data message for the peer
GenData(c) ==
  /\ Len(sent) < MaxData
  /\ hist # << >>
  /\ \A d \in Peers : net[d] = << >>
  /\ nCrafted = 0
  /\ \E pt \in Plaintexts :
       /\ net' = [net EXCEPT ![Other(c)] = Append(@, genDataMsg(conv[c], pt, << >>))]
       /\ last' = [NoCall EXCEPT !.who = c, !.kind = "genDataMsg", !.in = pt,
                                 !.akeBefore = conv[c].akeState,
                                 !.msgBefore = conv[c].msgState]
       /\ sent' = Append(sent, pt)
  /\ UNCHANGED << conv, hist, nCrafted >>

\* c.processDataMessage on the data message that arrives
ProcessData(c) ==
  /\ net[c] # << >>
  /\ msgTypeOf(Head(net[c])) = msgTypeData
  /\ \E r \in {processDataMessage(conv[c], Head(net[c]))} :
         /\ conv' = [conv EXCEPT ![c] = r.conv]
         /\ last' = [who |-> c, kind |-> "processDataMessage", in |-> Head(net[c]),
                     plain |-> r.plain, toSend |-> r.toSend, err |-> r.err,
                     akeBefore |-> conv[c].akeState, msgBefore |-> conv[c].msgState,
                     keysBefore |-> conv[c].keys, ssidBefore |-> conv[c].ssid]
  /\ net' = [net EXCEPT ![c] = Tail(@)]
  /\ UNCHANGED << hist, nCrafted, sent >>

Next ==
  \/ \E c \in Peers : ReceiveQuery(c)
  \/ \E c \in Peers : ReceiveRelay(c)
  \/ \E c \in Peers : GenData(c)
  \/ \E c \in Peers : ProcessData(c)

Spec == Init /\ [][Next]_vars

NextHostile ==
  \/ ReceiveQuery("bob")
  \/ \E c \in Peers : ReceiveRelay(c)
  \/ \E c \in Peers : ReceiveCrafted(c)

SpecHostile == InitHostile /\ [][NextHostile]_vars

(***************************************************************************)
(* The methods of the AKE context called one by one, as the unit tests do: *)
(* bob's context is the initiator's, alice's the responder's.              *)
(***************************************************************************)
MaxKeys == 2       \* calls of processDHKey on one context

\* the gy a DH-Key message carries: the values at and around both ends of
\* the range
KeyValues == {0, 1, 2, 3, p - 2, p - 1, p}

\* two contexts of version 3, each with or without an injected reader
InitUnit ==
  /\ \E ia \in BOOLEAN, ib \in BOOLEAN :
       conv = [c \in Peers |->
                 IF c = "alice"
                   THEN [newConversation({allowV2, allowV3}, alicePrivateKey, 257)
                           EXCEPT !.ake.otrVersion = 3, !.ake.Rand = ia]
                   ELSE [newConversation({allowV2, allowV3}, bobPrivateKey, 258)
                           EXCEPT !.ake.otrVersion = 3, !.ake.Rand = ib]]
  /\ Fresh

\* the record of a call of a method of c's context
UnitCall(c, method, in, out, err, isSame) ==
  [who |-> c, kind |-> method, in |-> in, toSend |-> out, err |-> err,
   isSame |-> isSame, reader |-> rand(conv[c].ake), before |-> conv[c].ake]

\* ake.processDHKey on a DH-Key message that carries gy
UnitProcessDHKey(c) ==
  /\ c = "bob"
  \* a context that has sent its commit is given one DH-Key message
  /\ Len(hist) < (IF conv[c].ake.x = NilInt THEN MaxKeys ELSE 1)
  \* the responder of another peer is called on its own
  /\ conv[Other(c)].ake.encryptedGx = << >> \/ conv[c].ake.x # NilInt
  /\ \E gy \in KeyValues :
       \E k \in {processDHKey(conv[c].ake, appendMPI(<< >>, gy))} :
          /\ conv' = [conv EXCEPT ![c].ake = k.ake]
          /\ last' = UnitCall(c, "processDHKey", gy, << >>, k.err, k.isSame)
          /\ hist' = Append(hist, [gy |-> gy, err |-> k.err, isSame |-> k.isSame])
  /\ UNCHANGED << net, nCrafted, sent >>

\* what a read of the reader can yield: the injected one can also fail, on
\* the 40 bytes of an exponent or after 0 or 8 of the 16 bytes of r; the
\* process-wide one does not fail
FailedDraws ==
  {[ok |-> FALSE, nR |-> 16, x |-> 2, fill |-> 1, x2 |-> 3]}
    \cup {[ok |-> TRUE, nR |-> n, x |-> 2, fill |-> 1, x2 |-> 3] : n \in {0, 8}}

ReaderDraws(reader) ==
  IF reader = "injected" THEN RandDraws \cup FailedDraws ELSE RandDraws

\* ake.dhCommitMessage, once; what it returns is sent to the responder
UnitDHCommit(c) ==
  /\ c = "bob"
  /\ conv[c].ake.x = NilInt /\ hist = << >>
  /\ conv[Other(c)].ake.encryptedGx = << >>
  /\ \E rd \in ReaderDraws(rand(conv[c].ake)) :
       \E m \in {dhCommitMessage(conv[c].ake, rd)} :
          /\ conv' = [conv EXCEPT ![c].ake = m.ake]
          /\ net' = [net EXCEPT ![Other(c)] = IF m.out = << >> THEN @ ELSE Append(@, m.out)]
          /\ last' = UnitCall(c, "dhCommitMessage", rd, m.out, m.err, FALSE)
  /\ UNCHANGED << hist, nCrafted, sent >>

\* the body of a DH-Commit message of a peer that follows the protocol
\* description: gx encrypted under r, and its digest over the same bytes;
\* with a byte after the MPI, or with the last byte of the ciphertext
\* flipped on the way
peerCommit(gx, r, tail, flipped) ==
  LET commit(plain) ==
        LET e == XORKeyStream(r, plain)
        IN  appendData(appendData(<< >>,
                                  IF flipped
                                    THEN [e EXCEPT ![Len(e)] = (@ + 1) % 256] ELSE e),
                       Sha256(plain))
  IN  commit(appendMPI(<< >>, gx) \o tail)

peerR == Fill(16, 1)

\* a Reveal-Signature body that reveals r and is well formed, with bytes
\* that are no signature and no MAC
unsignedReveal(r) == appendData(appendData(<< >>, r), << 7 >>) \o Zeros(20)

\* the DH-Commit bodies the responder is given: the initiator's, or, while
\* the initiator has done nothing, those of other peers
Commits(c) ==
  {Slice(m, headerLen(m[2]), Len(m)) :
     m \in {n \in {IF net[c] = << >> THEN << >> ELSE Head(net[c])} :
              msgTypeOf(n) = msgTypeDHCommit}}
    \cup (IF conv[Other(c)].ake.x = NilInt /\ hist = << >> /\ net[c] = << >>
            THEN {peerCommit(gx, peerR, tail, flipped) :
                    gx \in {1, 4}, tail \in {<< >>, << 1 >>}, flipped \in BOOLEAN}
            ELSE {})

\* the context of a responder that has stored the commitment of a DH-Commit
storeCommit(ake, body) ==
  LET commitment(e, d) == [ake EXCEPT !.encryptedGx = e.data, !.digest = d.data]
      encrypted(e) == commitment(e, extractData(body, e.index))
  IN  encrypted(extractData(body, 0))

\* the responder is given a DH-Commit: the commitment is stored in its
\* context and ake.dhKeyMessage is called
UnitDHKey(c) ==
  /\ c = "alice"
  /\ conv[c].ake.encryptedGx = << >>
  /\ \E b \in Commits(c) : \E rd \in ReaderDraws(rand(conv[c].ake)) :
       \E m \in {dhKeyMessage(storeCommit(conv[c].ake, b), rd)} :
          /\ conv' = [conv EXCEPT ![c].ake = m.ake]
          /\ net' = [net EXCEPT ![c] = IF @ = << >> THEN @ ELSE Tail(@)]
          /\ last' = UnitCall(c, "dhKeyMessage", rd, m.out, m.err, FALSE)
  /\ UNCHANGED << hist, nCrafted, sent >>

\* ake.revealSigMessage, once, of an initiator that holds x and a gy
UnitRevealSig(c) ==
  /\ c = "bob"
  /\ conv[c].ake.x # NilInt /\ conv[c].ake.gy # NilInt
  /\ conv[c].ake.revealKey = ZeroKeys
  /\ \E m \in {revealSigMessage(conv[c].ake)} :
       /\ conv' = [conv EXCEPT ![c].ake = m.ake]
       /\ net' = [net EXCEPT ![Other(c)] = IF m.out = << >> THEN @ ELSE Append(@, m.out)]
       /\ last' = UnitCall(c, "revealSigMessage", << >>, m.out, m.err, FALSE)
  /\ UNCHANGED << hist, nCrafted, sent >>

\* the Reveal-Signature bodies the responder is given: the initiator's, or
\* one that reveals the r of the peer, another r or one of 15 bytes, then
\* bytes that are no encrypted signature and 20 or 19 bytes that are no MAC
Reveals(c) ==
  {Slice(m, headerLen(m[2]), Len(m)) :
     m \in {n \in {IF net[c] = << >> THEN << >> ELSE Head(net[c])} :
              msgTypeOf(n) = msgTypeRevealSig}}
    \cup (IF net[c] = << >>
            THEN {appendData(appendData(<< >>, r), << 7 >>) \o Zeros(n) :
                    r \in {peerR, Fill(16, 2), Fill(15, 1)}, n \in {20, 19}}
            ELSE {})

\* ake.processRevealSig of a responder that has stored a commitment
UnitProcessRevealSig(c) ==
  /\ c = "alice"
  /\ conv[c].ake.encryptedGx # << >> /\ conv[c].ake.y # NilInt
  /\ nCrafted < MaxCrafted
  /\ \E b \in Reveals(c) :
       \E k \in {processRevealSig(conv[c].ake, b)} :
          /\ conv' = [conv EXCEPT ![c].ake = k.ake]
          /\ net' = [net EXCEPT ![c] = IF @ = << >> THEN @ ELSE Tail(@)]
          /\ last' = UnitCall(c, "processRevealSig", b, << >>, k.err, FALSE)
  /\ nCrafted' = nCrafted + 1
  /\ UNCHANGED << hist, sent >>

\* the query messages parseOTRQueryMessage is given
QueryMessages ==
  {<< 63, 79, 84, 82, 63 >>,   \* ?OTR?
   << 63, 79, 84, 82, 118, 50, 63 >>,   \* ?OTRv2?
   << 63, 79, 84, 82, 118, 50, 51, 63 >>,   \* ?OTRv23?
   << 63, 79, 84, 82, 63, 118, 50 >>,   \* ?OTR?v2
   << 63, 79, 84, 82, 118, 50, 52, 56, 63 >>,   \* ?OTRv248?
   << 63, 79, 84, 82, 63, 118, 63 >>,   \* ?OTR?v?
   << 63, 79, 84, 82, 118, 63 >>,   \* ?OTRv?
   << 63, 79, 84, 82, 118, 51, 63 >>,   \* ?OTRv3?
   << 63, 79, 84, 82, 63, 118, 50, 51, 63 >>,   \* ?OTR?v23?
   << 63, 79, 84, 82, 118, 51, 50, 63 >>}   \* ?OTRv32?

\* parseOTRQueryMessage on a query message, before anything else is called
UnitParseQuery(c) ==
  /\ c = "alice"
  /\ last = NoCall
  /\ \E msg \in QueryMessages :
       last' = UnitCall(c, "parseOTRQueryMessage", msg, parseOTRQueryMessage(msg), "nil", FALSE)
  /\ UNCHANGED << conv, net, hist, nCrafted, sent >>

NextUnit ==
  \/ \E c \in Peers : UnitParseQuery(c)
  \/ \E c \in Peers : UnitProcessDHKey(c)
  \/ \E c \in Peers : UnitDHCommit(c)
  \/ \E c \in Peers : UnitDHKey(c)
  \/ \E c \in Peers : UnitRevealSig(c)
  \/ \E c \in Peers : UnitProcessRevealSig(c)

SpecUnit == InitUnit /\ [][NextUnit]_vars

(***************************************************************************)
(* The compat wrapper: two of its conversations, and a peer that runs      *)
(* another implementation of the protocol                                  *)
(***************************************************************************)
NoChange == 0
NewKeys == 1

\* the wrapper: the fields of the embedded conversation, among them TheirKey,
\* and its own PrivateKey and TheirPublicKey; OurKey is the key of the AKE
\* context
compatConversation(embedded, their, priv, pub) ==
  [f \in DOMAIN embedded \cup {"TheirKey", "PrivateKey", "TheirPublicKey"} |->
     CASE f = "TheirKey" -> their
       [] f = "PrivateKey" -> priv
       [] f = "TheirPublicKey" -> pub
       [] OTHER -> embedded[f]]

\* compatInit that leaves the keys of the embedded conversation alone
compatInitPoliciesOnly(c) == [c EXCEPT !.policies = @ \cup {allowV2}]

compatInit(c) ==
  [c EXCEPT !.policies = @ \cup {allowV2},
            !.ake.ourKey = c.PrivateKey,
            !.TheirKey = c.TheirPublicKey]

\* encrypted is read before the inner Receive runs; change is the zero value
\* of its type, nothing is assigned to it
compatReceive(c, in, rd) ==
  LET answer(c0, r) ==
        [conv |-> r.conv, out |-> r.plain, encrypted |-> c0.msgState = "encrypted",
         change |-> NoChange, toSend |-> r.toSend, err |-> r.err]
      inner(c0) == answer(c0, Receive(c0, in, rd))
  IN  inner(compatInit(c))

\* c.Receive(in) of the wrapper: what it returns is sent to the peer
CompatCall(c, in, kind, rest, rd) ==
  \E r \in {compatReceive(conv[c], in, rd)} :
      /\ conv' = [conv EXCEPT ![c] = r.conv]
      /\ net' = [net EXCEPT ![c] = rest,
                            ![Other(c)] = IF r.toSend = << >> THEN @ ELSE Append(@, r.toSend)]
      /\ last' = [who |-> c, kind |-> kind, in |-> in, plain |-> r.out,
                  toSend |-> r.toSend, err |-> r.err, encrypted |-> r.encrypted,
                  change |-> r.change, before |-> conv[c],
                  akeBefore |-> conv[c].akeState, msgBefore |-> conv[c].msgState,
                  keysBefore |-> conv[c].keys, ssidBefore |-> conv[c].ssid]
      /\ hist' = Append(hist, [who |-> c, kind |-> kind, type |-> msgTypeOf(in),
                               query |-> IF kind = "query" THEN in ELSE << >>,
                               err |-> r.err, ake |-> r.conv.akeState])

\* the peer's user asks for a conversation, of a conversation that has
\* received nothing yet
CompatQuery(c) ==
  /\ conv[c].akeState = "none"
  /\ \A i \in 1..Len(hist) : hist[i].who # c
  /\ \E q \in Queries, rd \in RandDraws : CompatCall(c, q, "query", net[c], rd)
  /\ UNCHANGED << nCrafted, sent >>

\* the next message of the other conversation arrives
CompatRelay(c) ==
  /\ net[c] # << >>
  /\ \E rd \in DrawsFor(Head(net[c])) :
       CompatCall(c, Head(net[c]), "relay", Tail(net[c]), rd)
  /\ UNCHANGED << nCrafted, sent >>

\* the next message of a peer that runs another implementation: its
\* DH-Commit for a conversation that has received nothing, its
\* Reveal-Signature for one that waits for it
PeerMessages(c) ==
  {craftedHeader(c, v, msgTypeDHCommit) \o peerCommit(4, peerR, << >>, FALSE) :
     v \in {w \in {2, 3} : /\ Allows(compatInit(conv[c]).policies, w)
                           /\ \A i \in 1..Len(hist) : hist[i].who # c}}
    \cup {craftedHeader(c, v, msgTypeRevealSig) \o unsignedReveal(r) :
            v \in {w \in {2, 3} : /\ w = conv[c].ake.otrVersion
                                  /\ conv[c].akeState = "awaitingRevealSig"},
            r \in {peerR, Fill(16, 2)}}

CompatPeer(c) ==
  /\ c = "alice"
  /\ net[c] = << >>
  /\ \A i \in 1..Len(hist) : hist[i].who = c /\ hist[i].kind = "peer"
  /\ \E m \in PeerMessages(c) : \E rd \in RandDraws : CompatCall(c, m, "peer", net[c], rd)
  /\ UNCHANGED << nCrafted, sent >>

\* Send of the wrapper
compatSend(c, in) ==
  LET answer(r) == [conv |-> r.conv, toSend |-> r.toSend, err |-> r.err]
  IN  answer(Send(compatInit(c), in))

\* End of the wrapper: the error of the inner End is dropped
compatEnd(c) ==
  LET answer(r) == [conv |-> r.conv, toSend |-> r.toSend, err |-> "nil"]
  IN  answer(End(compatInit(c)))

\* Authenticate of the wrapper: nothing but compatInit
compatAuthenticate(c, question, mutualSecret) ==
  [conv |-> compatInit(c), toSend |-> << >>, err |-> "nil"]

\* SMPQuestion of the wrapper
compatSMPQuestion(c) ==
  LET answer(r) == [conv |-> r.conv, toSend |-> r.question, err |-> "nil"]
  IN  answer(SMPQuestion(compatInit(c)))

WrapperMethods == {"Send", "End", "Authenticate", "SMPQuestion"}

\* one of the four other methods of the wrapper, on "hi" or on a question
\* and a secret
compatMethod(c, method) ==
  CASE method = "Send" -> compatSend(c, << 104, 105 >>)
    [] method = "End" -> compatEnd(c)
    [] method = "Authenticate" -> compatAuthenticate(c, << 63 >>, << 115 >>)
    [] OTHER -> compatSMPQuestion(c)

\* a call of one of them; what it returns goes to the caller
CompatMethod(c) ==
  /\ \E method \in WrapperMethods :
       \E r \in {compatMethod(conv[c], method)} :
          /\ conv' = [conv EXCEPT ![c] = r.conv]
          /\ last' = [who |-> c, kind |-> method, in |-> << >>, plain |-> << >>,
                      toSend |-> r.toSend, err |-> r.err, before |-> conv[c],
                      akeBefore |-> conv[c].akeState, msgBefore |-> conv[c].msgState,
                      keysBefore |-> conv[c].keys, ssidBefore |-> conv[c].ssid]
  /\ UNCHANGED << net, hist, nCrafted, sent >>

\* two conversations of the wrapper, with their keys; on the embedded
\* conversation the caller has set no key, or other keys
InitCompat ==
  /\ \E pa \in PolicySets, pb \in PolicySets, set \in BOOLEAN :
       conv = [c \in Peers |->
                 IF c = "alice"
                   THEN compatConversation(
                          newConversation(pa, IF set THEN bobPrivateKey ELSE 0, 257),
                          IF set THEN alicePrivateKey ELSE 0,
                          alicePrivateKey, bobPrivateKey)
                   ELSE compatConversation(
                          newConversation(pb, IF set THEN alicePrivateKey ELSE 0, 258),
                          IF set THEN bobPrivateKey ELSE 0,
                          bobPrivateKey, alicePrivateKey)]
  /\ Fresh

NextCompat ==
  \/ \E c \in Peers : CompatQuery(c)
  \/ \E c \in Peers : CompatRelay(c)
  \/ \E c \in Peers : CompatPeer(c)

SpecCompat == InitCompat /\ [][NextCompat]_vars

\* the methods of the wrapper called one by one: alice's conversation is
\* new; bob's is new, encrypted or finished, and on its embedded conversation
\* the caller has set any policies and no key or other keys
InitWrapper ==
  /\ \E pb \in SUBSET {allowV2, allowV3}, set \in BOOLEAN,
        sb \in {"plainText", "encrypted", "finished"} :
       conv = [c \in Peers |->
                 IF c = "alice"
                   THEN compatConversation(
                          newConversation({allowV2, allowV3}, 0, 257), 0,
                          alicePrivateKey, bobPrivateKey)
                   ELSE compatConversation(
                          [(IF sb = "plainText" THEN newConversation(pb, 0, 258)
                                                ELSE bobContextAfterAKE(pb, sb))
                             EXCEPT !.ake.ourKey = IF set THEN alicePrivateKey ELSE 0],
                          IF set THEN bobPrivateKey ELSE 0,
                          bobPrivateKey, alicePrivateKey)]
  /\ Fresh

NextWrapper ==
  \/ \E c \in Peers : CompatQuery(c)
  \/ \E c \in Peers : CompatMethod(c)

SpecWrapper == InitWrapper /\ [][NextWrapper]_vars

(***************************************************************************)
(* Properties                                                              *)
(***************************************************************************)
BothAllowAll == \A c \in Peers : conv[c].policies = {allowV2, allowV3}

Drained == \A c \in Peers : net[c] = << >>

\* bob was given a query, and since then each message went to the peer in order
RelayedRun ==
  /\ hist # << >>
  /\ hist[1].who = "bob" /\ hist[1].kind = "query"
  /\ \A i \in 2..Len(hist) : hist[i].kind = "relay"

\* who receives what and the AKE sub-state it is in afterwards, step by step
happyPath ==
  << [who |-> "bob", type |-> 0, ake |-> "awaitingDHKey"],
     [who |-> "alice", type |-> msgTypeDHCommit, ake |-> "awaitingRevealSig"],
     [who |-> "bob", type |-> msgTypeDHKey, ake |-> "awaitingSig"],
     [who |-> "alice", type |-> msgTypeRevealSig, ake |-> "none"],
     [who |-> "bob", type |-> msgTypeSig, ake |-> "none"] >>

FollowsPath(path) ==
  /\ Len(hist) <= Len(path)
  /\ \A i \in 1..Len(hist) :
       /\ hist[i].err = "nil"
       /\ hist[i].who = path[i].who
       /\ hist[i].type = path[i].type
       /\ hist[i].ake = path[i].ake

\* C1: with v2 and v3 allowed on both sides, the query ?OTRv3? given to bob and
\* every outbound relayed in order, each Receive returns no error, the AKE
\* sub-states follow the happy path, bob holds the Reveal-Signature it sent,
\* there are exactly four AKE messages and both end in message-state encrypted
C1_HappyPath ==
  (BothAllowAll /\ RelayedRun /\ hist[1].query = queryV3 /\ sent = << >>) =>
     /\ FollowsPath(happyPath)
     /\ (Len(hist) = 3 => conv["bob"].revealSigMsg = last.toSend)
     /\ (Drained => /\ Len(hist) = 5
                    /\ \A c \in Peers : conv[c].msgState = "encrypted")

\* an honest run that has come to its end
HonestRunDone ==
  /\ BothAllowAll /\ RelayedRun /\ sent = << >> /\ Drained
  /\ hist[1].ake = "awaitingDHKey"
  /\ Len(hist) >= 4

Advertised(q) ==
  IF q = << 63, 79, 84, 82, 118, 51, 63 >> THEN {3}
  ELSE IF q = << 63, 79, 84, 82, 118, 50, 63 >> THEN {2}
  ELSE IF q = << 63, 79, 84, 82, 118, 50, 51, 63 >> THEN {2, 3}
  ELSE IF q = << 63, 79, 84, 82, 63 >> THEN {1}
  ELSE {}

Highest(S) == CHOOSE v \in S : \A w \in S : w <= v

\* C5: a conversation in AKE sub-state none that receives a query answers with
\* a DH-Commit of the highest version both advertised and allowed and waits for
\* the DH-Key; if no version is both, it sends nothing and stays in none
C5_QueryStartsAKE ==
  (last.kind = "query" /\ last.akeBefore = "none") =>
     LET c == last.who
         S == {v \in {2, 3} : v \in Advertised(last.in) /\ Allows(conv[c].policies, v)}
     IN  IF S # {}
           THEN /\ last.err = "nil"
                /\ Len(last.toSend) >= 3
                /\ SubSeq(last.toSend, 1, 3) = << 0, Highest(S), msgTypeDHCommit >>
                /\ conv[c].akeState = "awaitingDHKey"
           ELSE /\ last.toSend = << >>
                /\ conv[c].akeState = "none"

\* a query that offers v2 and v3 to a conversation that allows both: v3 it is
C5_Witness ==
  /\ last.kind = "query" /\ last.akeBefore = "none"
  /\ Advertised(last.in) = {2, 3}
  /\ conv[last.who].policies = {allowV2, allowV3}
  /\ SubSeq(last.toSend, 1, 3) = << 0, 3, msgTypeDHCommit >>
  /\ conv[last.who].akeState = "awaitingDHKey"

\* a call of Receive on the bytes of a message, not of a query
ReceivedMessage == last.kind \in {"relay", "crafted"} /\ Len(last.in) >= 2

VersionOf(in) == in[1] * 256 + in[2]

\* C6: Receive of a message whose header version the receiver's policies do not
\* allow returns errWrongProtocolVersion, whatever the AKE sub-state and the
\* message-state
C6_WrongVersion ==
  (ReceivedMessage /\ ~Allows(conv[last.who].policies, VersionOf(last.in))) =>
     last.err = "errWrongProtocolVersion"

\* a v2 header for a conversation that allows v3 only and is in the middle of
\* an AKE
C6_Witness ==
  /\ ReceivedMessage
  /\ VersionOf(last.in) = 2
  /\ conv[last.who].policies = {allowV3}
  /\ last.akeBefore = "awaitingRevealSig"
  /\ last.err = "errWrongProtocolVersion"

\* a whole message of an allowed version and of one of the given types
ReceivedOfType(types) ==
  /\ ReceivedMessage
  /\ Allows(conv[last.who].policies, VersionOf(last.in))
  /\ Len(last.in) >= (IF VersionOf(last.in) = 3 THEN 11 ELSE 3)
  /\ last.in[3] \in types

\* C7: a data message received in message-state plaintext or finished makes
\* Receive return errEncryptedMessageWithNoSecureChannel and the SMP abort TLV
\* as outbound, and leaves the SMP sub-state at expect1
C7_DataWithoutChannel ==
  (ReceivedOfType({msgTypeData}) /\ last.msgBefore \in {"plainText", "finished"}) =>
     /\ last.err = "errEncryptedMessageWithNoSecureChannel"
     /\ last.toSend = << 0, 6, 0, 0 >>
     /\ conv[last.who].smpState = "expect1"

\* a finished conversation, the only one that starts in the middle of an SMP
\* exchange, has been given a data message
C7_Witness ==
  /\ ReceivedOfType({msgTypeData})
  /\ last.msgBefore = "finished"
  /\ last.err = "errEncryptedMessageWithNoSecureChannel"
  /\ conv[last.who].smpState = "expect1"

AKETypes == {msgTypeDHCommit, msgTypeDHKey, msgTypeRevealSig, msgTypeSig}

\* the gy of a DH-Key message
GyOf(in) ==
  LET at == IF VersionOf(in) = 3 THEN 11 ELSE 3
  IN  IF Len(in) >= at + 5 /\ SubSeq(in, at + 1, at + 4) = << 0, 0, 0, 1 >>
        THEN in[at + 5] ELSE 0

notAllowV2Path ==
  << [who |-> "bob", type |-> 0, ake |-> "awaitingDHKey"],
     [who |-> "alice", type |-> msgTypeDHCommit, ake |-> "awaitingRevealSig"],
     [who |-> "bob", type |-> msgTypeDHKey, ake |-> "awaitingSig"],
     [who |-> "alice", type |-> msgTypeRevealSig, ake |-> "awaitingRevealSig"] >>

NotAllowV2Run ==
  /\ RelayedRun /\ hist[1].query = queryV3 /\ sent = << >>
  /\ conv["alice"].policies = {allowV3}
  /\ allowV3 \in conv["bob"].policies

\* C9: when alice does not allow v2, an AKE started by ?OTRv3? runs its first
\* three steps as in the happy path; alice's Receive of the Reveal-Signature
\* returns no error and nothing to send and leaves her in awaitingRevealSig,
\* and the negotiation does not complete
C9_NotAllowV2 ==
  NotAllowV2Run =>
     /\ FollowsPath(notAllowV2Path)
     /\ (Len(hist) = 3 => conv["bob"].revealSigMsg = last.toSend)
     /\ (Len(hist) = 4 => last.toSend = << >> /\ Drained)
     /\ \A c \in Peers : conv[c].msgState = "plainText"

C9_Witness ==
  /\ NotAllowV2Run
  /\ Len(hist) = 4
  /\ last.who = "alice" /\ last.err = "nil" /\ last.toSend = << >>
  /\ conv["alice"].akeState = "awaitingRevealSig"
  /\ conv["bob"].akeState = "awaitingSig"

\* both were given a query before either received the other's DH-Commit, the
\* two commits differed so that one peer kept its own, and every message since
\* went to the peer in order, until none was left
CrossingRunDone ==
  /\ BothAllowAll /\ Drained /\ sent = << >>
  /\ \E c \in Peers : conv[c].ake.x # NilInt
  /\ Len(hist) >= 4
  /\ hist[1].kind = "query" /\ hist[2].kind = "query"
  /\ hist[1].ake = "awaitingDHKey" /\ hist[2].ake = "awaitingDHKey"
  /\ hist[1].query = hist[2].query
  /\ \A i \in 3..Len(hist) : hist[i].kind = "relay"

\* C10: when the DH-Commits of the two peers cross, one survives, and the run
\* ends with both peers in message-state encrypted
C10_CrossingCommits ==
  CrossingRunDone => \A c \in Peers : conv[c].msgState = "encrypted"

InRange(gy) == gy >= 2 /\ gy <= p - 2

\* C11: processDHKey rejects every gy below 2 or above p - 2 with "DH value
\* out of range" and leaves the stored gy as it was, and accepts every gy
\* from 2 to p - 2
C11_DHKeyRange ==
  last.kind = "processDHKey" =>
     IF InRange(last.in)
       THEN last.err = "nil"
       ELSE /\ last.err = "otr: DH value out of range"
            /\ conv[last.who].ake.gy = last.before.gy

\* gy = p - 1 is rejected by a context that holds a gy, which it keeps
C11_Witness ==
  /\ last.kind = "processDHKey"
  /\ last.in = p - 1
  /\ last.err = "otr: DH value out of range"
  /\ last.before.gy # NilInt
  /\ conv[last.who].ake.gy = last.before.gy

\* the gy of the first DH-Key in range among those processed, if any
FirstInRange ==
  LET I == {i \in 1..Len(hist) : InRange(hist[i].gy)}
  IN  IF I = {} THEN NilInt ELSE hist[CHOOSE i \in I : \A j \in I : i <= j].gy

\* C19: whatever DH-Key messages a context processes, the gy it holds is
\* the first one in range; a later one in range never replaces it and is
\* reported as the same exactly when it equals the one held
C19_FirstGyKept ==
  (last.kind = "processDHKey") =>
     /\ conv[last.who].ake.gy = FirstInRange
     /\ (InRange(last.in) /\ last.before.gy # NilInt) =>
           /\ conv[last.who].ake.gy = last.before.gy
           /\ last.isSame = (last.in = last.before.gy)

\* a second gy in range, other than the first, has been processed
C19_Witness ==
  /\ last.kind = "processDHKey"
  /\ Len(hist) = 2
  /\ InRange(hist[1].gy) /\ InRange(hist[2].gy) /\ hist[1].gy # hist[2].gy
  /\ conv[last.who].ake.gy = hist[1].gy
  /\ ~last.isSame

\* the commit a context has stored, as the body of the DH-Commit it came in
StoredCommit(ake) == appendData(appendData(<< >>, ake.encryptedGx), ake.digest)

\* the last call was processRevealSig, given the r of the peer, on a context
\* that had stored the peer's commit with this tail and this flip
RevealedPeerCommit(tail, flipped) ==
  /\ last.kind = "processRevealSig"
  /\ last.in = unsignedReveal(peerR)
  /\ \E gx \in {1, 4} : StoredCommit(last.before) = peerCommit(gx, peerR, tail, flipped)

\* C12, as stated: a stored encryptedGx with a corrupted trailing byte, be
\* it a byte after the MPI or the last byte altered, makes processRevealSig
\* fail with "gx corrupt after decryption"
C12_Original ==
  \A tail \in {<< >>, << 1 >>}, flipped \in BOOLEAN :
     (RevealedPeerCommit(tail, flipped) /\ (tail # << >> \/ flipped))
        => last.err = "otr: gx corrupt after decryption"

\* C12, amended: processRevealSig fails with "gx corrupt after decryption"
\* when the plaintext under the stored encryptedGx has a byte after MPI(gx)
\* that the stored digest covers; when the last byte of the stored
\* encryptedGx differs from what the digest was taken over, it fails with
\* "bad commit MAC in reveal signature message"
C12_TrailingByte ==
  \A tail \in {<< >>, << 1 >>}, flipped \in BOOLEAN :
     (RevealedPeerCommit(tail, flipped) /\ (tail # << >> \/ flipped))
        => last.err = IF flipped
                        THEN "otr: bad commit MAC in reveal signature message"
                        ELSE "otr: gx corrupt after decryption"

C12_Witness ==
  /\ RevealedPeerCommit(<< 1 >>, FALSE)
  /\ last.err = "otr: gx corrupt after decryption"
  /\ last.before.y # NilInt

\* the last call was processRevealSig on the initiator's Reveal-Signature,
\* by a responder that had stored the initiator's commit
HonestReveal ==
  /\ last.kind = "processRevealSig"
  /\ conv["bob"].ake.x # NilInt
  /\ last.before.encryptedGx = conv["bob"].ake.encryptedGx
  /\ last.before.digest = hashedGx(conv["bob"].ake)
  /\ conv["bob"].ake.gy # NilInt
  /\ \E m \in {revealSigMessage(conv["bob"].ake).out} :
       last.in = Slice(m, headerLen(m[2]), Len(m))

\* C17: the digest of the DH-Commit that dhCommitMessage returns is SHA-256
\* over MPI(gx), and processRevealSig on the initiator's Reveal-Signature
\* passes the digest check of the commit that dhCommitMessage produced
C17_DigestOverMPI ==
  /\ (last.kind = "dhCommitMessage" /\ last.err = "nil")
       => Slice(last.toSend, Len(last.toSend) - 32, Len(last.toSend))
            = Sha256(appendMPI(<< >>, conv[last.who].ake.gx))
  /\ HonestReveal
       => last.err # "otr: bad commit MAC in reveal signature message"

\* the MAC that ends a Reveal-Signature body is the first 20 bytes of the
\* HMAC, under the m2 the context holds, of the encrypted signature before it
macVerifies(ake, in) ==
  LET mac(sig) ==
        Slice(in, sig.index, Len(in))
          = Slice(sumHMAC(ake.revealKey.m2, appendData(<< >>, sig.data)), 0, 20)
  IN  mac(extractData(in, extractData(in, 0).index))

\* C18: processRevealSig returns no error only on a Reveal-Signature whose
\* MAC over the encrypted signature verifies under revealKey.m2
C18_RevealVerified ==
  (last.kind = "processRevealSig" /\ last.err = "nil")
     => macVerifies(conv[last.who].ake, last.in)

\* C20: a processRevealSig call that returns an error leaves the stored
\* encryptedGx, its digest and gx as they were before the call
C20_ErrorLeavesCommit ==
  (last.kind = "processRevealSig" /\ last.err # "nil")
     => /\ conv[last.who].ake.encryptedGx = last.before.encryptedGx
        /\ conv[last.who].ake.digest = last.before.digest
        /\ conv[last.who].ake.gx = last.before.gx

\* the methods that read random bytes: x and r, y, the DSA signature
DrawingMethods == {"dhCommitMessage", "dhKeyMessage", "revealSigMessage"}

\* C14: whatever the configuration of the context, a call that draws random
\* bytes reads them from the injected source, never from the process-wide one
C14_InjectedSource ==
  last.kind \in DrawingMethods => last.reader = "injected"

\* a read of the call failed: the exponent's, or, in dhCommitMessage, r's
drawFailed(method, rd) == ~rd.ok \/ (method = "dhCommitMessage" /\ rd.nR < 16)

\* C15: a dhCommitMessage or dhKeyMessage call during which a read of the
\* random source failed returns an error and no message
C15_FailedDrawFails ==
  (last.kind \in {"dhCommitMessage", "dhKeyMessage"} /\ drawFailed(last.kind, last.in))
     => (last.err # "nil" /\ last.toSend = << >>)

\* the results the unit test of parseOTRQueryMessage expects
parseExpected ==
  {[msg |-> << 63, 79, 84, 82, 63 >>, versions |-> << 1 >>],
   [msg |-> << 63, 79, 84, 82, 118, 50, 63 >>, versions |-> << 2 >>],
   [msg |-> << 63, 79, 84, 82, 118, 50, 51, 63 >>, versions |-> << 2, 3 >>],
   [msg |-> << 63, 79, 84, 82, 63, 118, 50 >>, versions |-> << 1, 2 >>],
   [msg |-> << 63, 79, 84, 82, 118, 50, 52, 56, 63 >>, versions |-> << 2, 4, 8 >>],
   [msg |-> << 63, 79, 84, 82, 63, 118, 63 >>, versions |-> << 1 >>],
   [msg |-> << 63, 79, 84, 82, 118, 63 >>, versions |-> <<  >>]}

isDigit(b) == b >= 48 /\ b <= 57

\* C16: parseOTRQueryMessage returns the advertised versions in the order of
\* the message: 1 when a "?" follows "?OTR", then the value of every digit;
\* on the messages of the unit test it returns what the test expects
C16_ParseQuery ==
  last.kind = "parseOTRQueryMessage"
     => /\ \A e \in parseExpected : last.in = e.msg => last.toSend = e.versions
        /\ LET digits == SelectSeq(last.in, isDigit)
               first == IF last.in[5] = 63 THEN 1 ELSE 0
           IN  /\ Len(last.toSend) = first + Len(digits)
               /\ first = 1 => last.toSend[1] = 1
               /\ \A i \in 1..Len(digits) : last.toSend[first + i] = digits[i] - 48

C16_Witness ==
  /\ last.kind = "parseOTRQueryMessage"
  /\ last.in = << 63, 79, 84, 82, 118, 50, 52, 56, 63 >>
  /\ last.toSend = << 2, 4, 8 >>

\* the last call was a Receive of the wrapper that completed the AKE
CompletedAKE ==
  /\ last.kind \in {"query", "relay", "peer"}
  /\ last.msgBefore # "encrypted"
  /\ conv[last.who].msgState = "encrypted"

\* C13: a Receive of the wrapper that completes the AKE and moves the
\* message-state to encrypted returns change = NewKeys, and one that returns
\* NoChange has changed neither the message-state nor the keys
C13_ChangeReported ==
  /\ CompletedAKE => last.change = NewKeys
  /\ (last.kind \in {"query", "relay", "peer"} /\ last.change = NoChange)
       => (conv[last.who].msgState = last.msgBefore /\ conv[last.who].keys = last.keysBefore)

\* C21: after any call of Receive, Send, End, Authenticate or SMPQuestion of
\* the wrapper the policies of the embedded conversation include allowV2 and
\* are otherwise those before the call, OurKey is the wrapper's PrivateKey
\* and TheirKey the wrapper's TheirPublicKey, whatever keys and policies the
\* embedded conversation had before
C21_CompatInit ==
  last.who \in Peers
     => /\ conv[last.who].policies = last.before.policies \cup {allowV2}
        /\ conv[last.who].ake.ourKey = conv[last.who].PrivateKey
        /\ conv[last.who].TheirKey = conv[last.who].TheirPublicKey
        /\ conv[last.who].PrivateKey = last.before.PrivateKey
        /\ conv[last.who].TheirPublicKey = last.before.TheirPublicKey

\* a call changed all three: allowV2 was missing and other keys were set
C21_Witness ==
  /\ last.who \in Peers
  /\ last.kind \in WrapperMethods \cup {"query"}
  /\ allowV2 \notin last.before.policies
  /\ allowV3 \in conv[last.who].policies
  /\ last.before.ake.ourKey \notin {0, last.before.PrivateKey}
  /\ last.before.TheirKey \notin {0, last.before.TheirPublicKey}
  /\ conv[last.who].ake.ourKey = conv[last.who].PrivateKey

====
